---- MODULE Spec2Model ----
(***************************************************************************)
(* Model of src/server/mockserver.ts: the in-memory chat-room coordinator  *)
(* (users, rooms, roomMembers, messagesByRoom) behind its Socket.IO        *)
(* handlers and its two HTTP read routes.                                  *)
(*                                                                         *)
(* Conventions of the model                                                *)
(*  - a JavaScript string is a sequence of one-character strings;          *)
(*  - nanoid() is a fresh-name source: the n-th id of a kind is            *)
(*    prefix \o ToString(n) (ids are never reused because nothing is ever  *)
(*    deleted from the maps);                                              *)
(*  - the process runs in UTC and `now` is the calendar day of its clock;  *)
(*    the createdAt timestamps (Date.now()) are not modelled;              *)
(*  - request payloads carry values of their declared TypeScript types,    *)
(*    optional fields may be absent and the whole payload may be missing;  *)
(*    requested maxUsers values are integers;                              *)
(*  - Socket.IO is modelled by what the handlers use of it: a socket's     *)
(*    set of joined rooms, io.emit, io.to(room).emit, socket.to(room).emit *)
(*    and the acknowledgement callback.                                    *)
(***************************************************************************)
EXTENDS Integers, Sequences, FiniteSets, TLC

VARIABLES
    users,            \* Map<string, User>: id -> User
    rooms,            \* Map<string, Room> in insertion order: sequence of Room
    roomMembers,      \* Map<string, Set<string>>: room id -> set of user ids
    messagesByRoom,   \* Map<string, Message[]>: room id -> sequence of Message
    sockets,          \* connected sockets: socket -> set of Socket.IO rooms joined
    now,              \* calendar day of the process clock, [y, m, d]
    lastAck,          \* the last request and the reply given to it
    emitted           \* events delivered by the last step: set of [to, event, data]

vars == <<users, rooms, roomMembers, messagesByRoom, sockets, now, lastAck, emitted>>

stores == <<users, rooms, roomMembers, messagesByRoom>>

-----------------------------------------------------------------------------
(* Bounds of the model                                                     *)

\* Spec: the stores under every interleaving of requests
NumSockets == 1
MaxUsers == 3
MaxNewRooms == 1
MaxMsgs == 1
\* SpecFan: the fan-out of events over several sockets
FanSockets == 2
FanUsers == 2
FanNewRooms == 1
FanMsgs == 2
\* SpecLog: one room's log growing past the recent-messages window
MaxLogLen == 52
\* SpecProbe: every combination of valid and invalid request fields
ProbeUsers == 1
ProbeNewRooms == 1
\* SpecIso: a room made on demand that fills up, seen from several sockets
IsoSockets == 2
IsoUsers == 3
IsoMsgs == 1
\* SpecAge: the number of calendar years today and the birth date range over
AgeYears == 3
\* SpecUser: every combination of valid and invalid registration fields
RegUsers == 1
\* SpecSend: every combination of valid and invalid message fields
SendUsers == 1
SendMsgs == 1

-----------------------------------------------------------------------------
(* JavaScript strings                                                      *)

Range(f) == {f[i] : i \in DOMAIN f}

UpperCase ==
    <<"A","B","C","D","E","F","G","H","I","J","K","L","M",
      "N","O","P","Q","R","S","T","U","V","W","X","Y","Z">>

LowerCase ==
    <<"a","b","c","d","e","f","g","h","i","j","k","l","m",
      "n","o","p","q","r","s","t","u","v","w","x","y","z">>

Letters == Range(UpperCase) \cup Range(LowerCase)

Whitespace == {" ", "\t", "\n"}

Digits == <<"0","1","2","3","4","5","6","7","8","9">>

\* String.prototype.trim
Trim(s) ==
    IF \A i \in 1..Len(s) : s[i] \in Whitespace THEN << >>
    ELSE LET first == CHOOSE i \in 1..Len(s) :
                          /\ s[i] \notin Whitespace
                          /\ \A j \in 1..(i - 1) : s[j] \in Whitespace
             cut == CHOOSE k \in 0..(Len(s) - 1) :
                        /\ s[Len(s) - k] \notin Whitespace
                        /\ \A j \in (Len(s) - k + 1)..Len(s) : s[j] \in Whitespace
         IN  SubSeq(s, first, Len(s) - cut)

\* String.prototype.toLowerCase
ToLowerCase(s) ==
    [i \in 1..Len(s) |->
        IF s[i] \in Range(UpperCase)
        THEN LowerCase[CHOOSE k \in 1..26 : UpperCase[k] = s[i]]
        ELSE s[i]]

\* /^[A-Za-z\s]+$/.test(name)
TestName(s) ==
    /\ Len(s) >= 1
    /\ \A i \in 1..Len(s) : s[i] \in Letters \cup Whitespace

\* /^[^\s@]+@[^\s@]+\.[^\s@]+$/.test(email)
TestEmail(s) ==
    \E i \in 2..Len(s) : \E j \in (i + 2)..(Len(s) - 1) :
        /\ s[i] = "@"
        /\ s[j] = "."
        /\ \A k \in (1..Len(s)) \ {i} : s[k] \notin Whitespace \cup {"@"}

\* the first n entries instead of the last n: slice(0, n)
SliceFirst(list, n) ==
    IF Len(list) <= n THEN list ELSE SubSeq(list, 1, n)

\* Array.prototype.slice(-n)
SliceLast(list, n) ==
    IF Len(list) <= n THEN list ELSE SubSeq(list, Len(list) - n + 1, Len(list))

-----------------------------------------------------------------------------
(* Dates (UTC). A date string is "YYYY-MM-DD"; anything else the model     *)
(* feeds to new Date() is not a date.                                      *)

InvalidDate == [nan |-> TRUE]

IsDigit(c) == c \in Range(Digits)

DigitVal(c) == (CHOOSE k \in 1..10 : Digits[k] = c) - 1

IsLeap(y) == (y % 4 = 0 /\ y % 100 # 0) \/ y % 400 = 0

DaysInMonth(y, m) ==
    IF m = 2 THEN (IF IsLeap(y) THEN 29 ELSE 28)
    ELSE IF m \in {4, 6, 9, 11} THEN 30 ELSE 31

\* new Date(dateStr)
ParseDate(s) ==
    IF /\ Len(s) = 10
       /\ s[5] = "-"
       /\ s[8] = "-"
       /\ \A i \in {1, 2, 3, 4, 6, 7, 9, 10} : IsDigit(s[i])
    THEN LET y == 1000 * DigitVal(s[1]) + 100 * DigitVal(s[2])
                  + 10 * DigitVal(s[3]) + DigitVal(s[4])
             m == 10 * DigitVal(s[6]) + DigitVal(s[7])
             d == 10 * DigitVal(s[9]) + DigitVal(s[10])
         IN  IF m \in 1..12 /\ d \in 1..DaysInMonth(y, m)
             THEN [y |-> y, m |-> m, d |-> d]
             ELSE InvalidDate
    ELSE InvalidDate

Pad2(n) == <<Digits[(n \div 10) + 1], Digits[(n % 10) + 1]>>

\* Date.prototype.toISOString().slice(0, 10)
IsoDay(d) ==
    <<Digits[(d.y \div 1000) + 1], Digits[((d.y \div 100) % 10) + 1],
      Digits[((d.y \div 10) % 10) + 1], Digits[(d.y % 10) + 1]>>
    \o <<"-">> \o Pad2(d.m) \o <<"-">> \o Pad2(d.d)

\* Date.prototype.toISOString() of a date-only instant
ToISOString(d) ==
    IsoDay(d) \o <<"T","0","0",":","0","0",":","0","0",".","0","0","0","Z">>

\* d.getTime() >= today.getTime() after both setHours(0, 0, 0, 0)
DayGeq(a, b) ==
    \/ a.y > b.y
    \/ a.y = b.y /\ a.m > b.m
    \/ a.y = b.y /\ a.m = b.m /\ a.d >= b.d

\* the day of the 18th birthday itself not counted
isAtLeast18Strict(dob) ==
    LET d == ParseDate(dob)
    IN  IF d = InvalidDate THEN FALSE
        ELSE LET years == now.y - d.y
                 m == now.m - d.m
             IN  IF years > 18 THEN TRUE
                 ELSE IF years < 18 THEN FALSE
                 ELSE IF m > 0 THEN TRUE
                 ELSE IF m < 0 THEN FALSE
                 ELSE now.d > d.d

isAtLeast18(dob) ==
    LET d == ParseDate(dob)
    IN  IF d = InvalidDate THEN FALSE
        ELSE LET years == now.y - d.y
                 m == now.m - d.m
             IN  IF years > 18 THEN TRUE
                 ELSE IF years < 18 THEN FALSE
                 ELSE IF m > 0 THEN TRUE
                 ELSE IF m < 0 THEN FALSE
                 ELSE now.d >= d.d

isStartDateNotPast(dateStr) ==
    LET d == ParseDate(dateStr)
    IN  IF d = InvalidDate THEN FALSE ELSE DayGeq(d, now)

-----------------------------------------------------------------------------
(* Program constants                                                       *)

MaxNameLen == 30
MaxRoomNameLen == 50
MaxTextLen == 2000
MinMaxUsers == 2
MaxMaxUsers == 10
DefaultMaxUsers == 2
RecentLimit == 50

API_KEYS == {"demo-key"}

-----------------------------------------------------------------------------
(* Replies and the stores' accessors                                       *)

err(code, message) == [ok |-> FALSE, error |-> [code |-> code, message |-> message]]

ok(data) == [ok |-> TRUE, data |-> data]

\* "no early return was taken"
NoError == [ok |-> TRUE]

\* a handler called without a payload
Undefined == [undefined |-> TRUE]

NoAck == [socket |-> 0, event |-> "none"]

isValidApiKey(apiKey) == apiKey \in API_KEYS

UsersHas(id) == id \in DOMAIN users

RoomIds == {rooms[i].id : i \in 1..Len(rooms)}

RoomsHas(id) == id \in RoomIds

RoomsGet(id) == rooms[CHOOSE i \in 1..Len(rooms) : rooms[i].id = id]

RECURSIVE CountMessages(_)
CountMessages(ids) ==
    IF ids = {} THEN 0
    ELSE LET r == CHOOSE x \in ids : TRUE
         IN  Len(messagesByRoom[r]) + CountMessages(ids \ {r})

TotalMessages == CountMessages(DOMAIN messagesByRoom)

\* a message id that is the same for every message
SameMessageId == "m_1"

\* `u_${nanoid(10)}`, `room_${nanoid(8)}`, `m_${nanoid(12)}`
NewUserId == "u_" \o ToString(Cardinality(DOMAIN users) + 1)

NewRoomId == "room_" \o ToString(Len(rooms) + 1)

NewMessageId == "m_" \o ToString(TotalMessages + 1)

\* io.to(roomId): the sockets that joined Socket.IO room `roomId`
InRoom(roomId) == {s \in DOMAIN sockets : roomId \in sockets[s]}

\* socket.to(roomId): every socket of the room but the calling one
OthersInRoom(c, roomId) == InRoom(roomId) \ {c}

\* the message sent with socket.to(room.id): the sender's socket is left out
MessageTargetsButSender(c, roomId) == OthersInRoom(c, roomId)

\* the message sent with io.emit: every connected socket gets it
MessageTargetsEveryone(c, roomId) == DOMAIN sockets

\* io.to(room.id).emit("sdk:message:new", ...) in the handler of socket c
MessageTargets(c, roomId) == InRoom(roomId)

\* the presence sent with io.to(room.id) after socket.join: the joiner gets it too
PresenceTargetsAll(c, roomId) == InRoom(roomId) \cup {c}

\* socket.to(room.id).emit("sdk:presence:joined", ...) in the handler of socket c
PresenceTargets(c, roomId) == OthersInRoom(c, roomId)

Emit(targets, event, data) ==
    {[to |-> s, event |-> event, data |-> data] : s \in targets}

\* an early return taken after socket.join: the socket is already in the room
\* the request names
RejectAfterJoin(c, event, p, e) ==
    /\ lastAck' = [socket |-> c, event |-> event, payload |-> p, reply |-> e]
    /\ emitted' = {}
    /\ sockets' = IF c \in DOMAIN sockets /\ "roomId" \in DOMAIN p
                  THEN [sockets EXCEPT ![c] = @ \cup {p.roomId}]
                  ELSE sockets
    /\ UNCHANGED <<stores, now>>

\* an early `return ack?.(err(...))`: nothing but the reply happens
Reject(c, event, p, e) ==
    /\ lastAck' = [socket |-> c, event |-> event, payload |-> p, reply |-> e]
    /\ emitted' = {}
    /\ UNCHANGED <<stores, sockets, now>>

-----------------------------------------------------------------------------
(* Construction                                                            *)

SupportRoom == <<"S","u","p","p","o","r","t"," ","R","o","o","m">>

SalesRoom == <<"S","a","l","e","s"," ","R","o","o","m">>

StartDay == [y |-> 2026, m |-> 11, d |-> 6]

seedRooms ==
    <<[id |-> "room_001", name |-> SupportRoom, startDate |-> IsoDay(now),
       maxUsers |-> 10, createdByUserId |-> "system"],
      [id |-> "room_002", name |-> SalesRoom, startDate |-> IsoDay(now),
       maxUsers |-> 5, createdByUserId |-> "system"]>>

Init ==
    /\ now = StartDay
    /\ users = << >>
    /\ rooms = seedRooms
    /\ roomMembers = [r \in {"room_001", "room_002"} |-> {}]
    /\ messagesByRoom = [r \in {"room_001", "room_002"} |-> << >>]
    /\ sockets = << >>
    /\ lastAck = NoAck
    /\ emitted = {}

-----------------------------------------------------------------------------
(* Connections                                                             *)

\* a connection that starts out subscribed to every room there is
ConnectSubscribed(c) ==
    /\ c \notin DOMAIN sockets
    /\ sockets' = [s \in DOMAIN sockets \cup {c} |->
                      IF s = c THEN RoomIds ELSE sockets[s]]
    /\ emitted' = Emit({c}, "sdk:status", ok([status |-> "online"]))
    /\ lastAck' = NoAck
    /\ UNCHANGED <<stores, now>>

\* io.on("connection"): the new socket has joined no room and is told "online"
Connect(c) ==
    /\ c \notin DOMAIN sockets
    /\ sockets' = [s \in DOMAIN sockets \cup {c} |->
                      IF s = c THEN {} ELSE sockets[s]]
    /\ emitted' = Emit({c}, "sdk:status", ok([status |-> "online"]))
    /\ lastAck' = NoAck
    /\ UNCHANGED <<stores, now>>

\* a disconnect that takes the socket's rooms' members out with it
DisconnectLeaving(c) ==
    /\ c \in DOMAIN sockets
    /\ sockets' = [s \in DOMAIN sockets \ {c} |-> sockets[s]]
    /\ roomMembers' = [r \in DOMAIN roomMembers |->
                           IF r \in sockets[c] THEN {} ELSE roomMembers[r]]
    /\ emitted' = {}
    /\ lastAck' = NoAck
    /\ UNCHANGED <<users, rooms, messagesByRoom, now>>

\* socket.on("disconnect", () => {}): the handler touches no store; Socket.IO
\* itself drops the socket and with it the rooms it had joined
Disconnect(c) ==
    /\ c \in DOMAIN sockets
    /\ sockets' = [s \in DOMAIN sockets \ {c} |-> sockets[s]]
    /\ emitted' = {}
    /\ lastAck' = NoAck
    /\ UNCHANGED <<stores, now>>

-----------------------------------------------------------------------------
(* Read operations                                                         *)

\* Array.from(rooms.values()).map(...)
RoomList ==
    [i \in 1..Len(rooms) |->
        [id |-> rooms[i].id, name |-> rooms[i].name,
         startDate |-> rooms[i].startDate, maxUsers |-> rooms[i].maxUsers,
         members |-> Cardinality(roomMembers[rooms[i].id])]]

\* app.get("/api/rooms")
GetRooms ==
    /\ lastAck' = [socket |-> 0, event |-> "GET /api/rooms",
                   payload |-> Undefined, reply |-> ok(RoomList)]
    /\ emitted' = {}
    /\ UNCHANGED <<stores, sockets, now>>

\* app.get("/api/rooms/:roomId/messages")
GetMessages(roomId) ==
    /\ lastAck' = [socket |-> 0, event |-> "GET /api/rooms/:roomId/messages",
                   payload |-> [roomId |-> roomId],
                   reply |-> IF ~RoomsHas(roomId)
                             THEN err("ROOM_NOT_FOUND", "Room not found")
                             ELSE ok(messagesByRoom[roomId])]
    /\ emitted' = {}
    /\ UNCHANGED <<stores, sockets, now>>

ListRoomsError(p) ==
    IF p = Undefined \/ ~isValidApiKey(p.apiKey)
    THEN err("UNAUTHORIZED", "Invalid apiKey")
    ELSE NoError

\* socket.on("sdk:room:list")
ListRooms(c, p) ==
    /\ c \in DOMAIN sockets
    /\ LET e == ListRoomsError(p)
       IN  IF ~e.ok THEN Reject(c, "sdk:room:list", p, e)
           ELSE /\ lastAck' = [socket |-> c, event |-> "sdk:room:list",
                               payload |-> p, reply |-> ok(RoomList)]
                /\ emitted' = {}
                /\ UNCHANGED <<stores, sockets, now>>

-----------------------------------------------------------------------------
(* socket.on("sdk:user:create")                                            *)

\* the email validated before the name
CreateUserErrorEmailFirst(p) ==
    IF p = Undefined THEN err("BAD_REQUEST", "Payload required")
    ELSE IF ~isValidApiKey(p.apiKey) THEN err("UNAUTHORIZED", "Invalid apiKey")
    ELSE IF ~p.agreedToTerms THEN err("TERMS_REQUIRED", "Must agree to terms")
    ELSE IF p.email = << >> \/ ~TestEmail(p.email)
    THEN err("INVALID_EMAIL", "Invalid email")
    ELSE IF p.name = << >> \/ Len(p.name) > MaxNameLen
    THEN err("INVALID_NAME", "Invalid name")
    ELSE IF ~TestName(p.name) THEN err("INVALID_NAME", "Name must be letters only")
    ELSE IF p.dob = << >> \/ ~isAtLeast18(p.dob)
    THEN err("INVALID_DOB", "Must be at least 18")
    ELSE NoError

CreateUserError(p) ==
    IF p = Undefined THEN err("BAD_REQUEST", "Payload required")
    ELSE IF ~isValidApiKey(p.apiKey) THEN err("UNAUTHORIZED", "Invalid apiKey")
    ELSE IF ~p.agreedToTerms THEN err("TERMS_REQUIRED", "Must agree to terms")
    ELSE IF p.name = << >> \/ Len(p.name) > MaxNameLen
    THEN err("INVALID_NAME", "Invalid name")
    ELSE IF ~TestName(p.name) THEN err("INVALID_NAME", "Name must be letters only")
    ELSE IF p.email = << >> \/ ~TestEmail(p.email)
    THEN err("INVALID_EMAIL", "Invalid email")
    ELSE IF p.dob = << >> \/ ~isAtLeast18(p.dob)
    THEN err("INVALID_DOB", "Must be at least 18")
    ELSE NoError

NewUser(p) ==
    [id |-> NewUserId,
     name |-> Trim(p.name),
     email |-> ToLowerCase(Trim(p.email)),
     dob |-> ToISOString(ParseDate(p.dob)),
     gender |-> IF "gender" \in DOMAIN p THEN p.gender ELSE "Male"]

CreateUser(c, p) ==
    /\ c \in DOMAIN sockets
    /\ LET e == CreateUserError(p)
       IN  IF ~e.ok THEN Reject(c, "sdk:user:create", p, e)
           ELSE LET user == NewUser(p)
                IN  /\ users' = [i \in DOMAIN users \cup {user.id} |->
                                    IF i = user.id THEN user ELSE users[i]]
                    /\ lastAck' = [socket |-> c, event |-> "sdk:user:create",
                                   payload |-> p, reply |-> ok([user |-> user])]
                    /\ emitted' = {}
                    /\ UNCHANGED <<rooms, roomMembers, messagesByRoom, sockets, now>>

-----------------------------------------------------------------------------
(* socket.on("sdk:room:create")                                            *)

\* the requested size bounded from below only
ClampMaxUsersLowOnly(p) ==
    LET n == IF "maxUsers" \in DOMAIN p THEN p.maxUsers ELSE DefaultMaxUsers
    IN  IF n > MinMaxUsers THEN n ELSE MinMaxUsers

\* Math.max(2, Math.min(10, payload.maxUsers ?? 2))
ClampMaxUsers(p) ==
    LET n == IF "maxUsers" \in DOMAIN p THEN p.maxUsers ELSE DefaultMaxUsers
        lo == IF n < MaxMaxUsers THEN n ELSE MaxMaxUsers
    IN  IF lo > MinMaxUsers THEN lo ELSE MinMaxUsers

\* payload.startDate || new Date().toISOString().slice(0, 10)
StartDateOf(p) ==
    IF "startDate" \in DOMAIN p /\ p.startDate # << >>
    THEN p.startDate
    ELSE IsoDay(now)

\* the room name and the start date validated before the creator is looked up
CreateRoomErrorUserLast(p) ==
    IF p = Undefined THEN err("BAD_REQUEST", "Payload required")
    ELSE IF ~isValidApiKey(p.apiKey) THEN err("UNAUTHORIZED", "Invalid apiKey")
    ELSE IF Trim(p.roomName) = << >>
    THEN err("INVALID_ROOM_NAME", "Room name required")
    ELSE IF Len(Trim(p.roomName)) > MaxRoomNameLen
    THEN err("INVALID_ROOM_NAME", "Max 50 chars")
    ELSE IF ~isStartDateNotPast(StartDateOf(p))
    THEN err("INVALID_START_DATE", "Start date cannot be in the past")
    ELSE IF ~UsersHas(p.userId) THEN err("USER_NOT_FOUND", "User not found")
    ELSE NoError

CreateRoomError(p) ==
    IF p = Undefined THEN err("BAD_REQUEST", "Payload required")
    ELSE IF ~isValidApiKey(p.apiKey) THEN err("UNAUTHORIZED", "Invalid apiKey")
    ELSE IF ~UsersHas(p.userId) THEN err("USER_NOT_FOUND", "User not found")
    ELSE IF Trim(p.roomName) = << >>
    THEN err("INVALID_ROOM_NAME", "Room name required")
    ELSE IF Len(Trim(p.roomName)) > MaxRoomNameLen
    THEN err("INVALID_ROOM_NAME", "Max 50 chars")
    ELSE IF ~isStartDateNotPast(StartDateOf(p))
    THEN err("INVALID_START_DATE", "Start date cannot be in the past")
    ELSE NoError

NewRoom(p) ==
    [id |-> NewRoomId,
     name |-> Trim(p.roomName),
     startDate |-> IsoDay(ParseDate(StartDateOf(p))),
     maxUsers |-> ClampMaxUsers(p),
     createdByUserId |-> p.userId]

\* the new room's member set left empty: the creator is not added
NoFirstMembers(p) == {}

\* roomMembers.set(id, new Set()); roomMembers.get(id)!.add(payload.userId)
FirstMembers(p) == {p.userId}

CreateRoom(c, p) ==
    /\ c \in DOMAIN sockets
    /\ LET e == CreateRoomError(p)
       IN  IF ~e.ok THEN Reject(c, "sdk:room:create", p, e)
           ELSE LET room == NewRoom(p)
                IN  /\ rooms' = Append(rooms, room)
                    /\ roomMembers' =
                           [r \in DOMAIN roomMembers \cup {room.id} |->
                               IF r = room.id THEN FirstMembers(p) ELSE roomMembers[r]]
                    /\ messagesByRoom' =
                           [r \in DOMAIN messagesByRoom \cup {room.id} |->
                               IF r = room.id THEN << >> ELSE messagesByRoom[r]]
                    /\ sockets' = [sockets EXCEPT ![c] = @ \cup {room.id}]
                    /\ lastAck' = [socket |-> c, event |-> "sdk:room:create",
                                   payload |-> p, reply |-> ok([room |-> room])]
                    /\ emitted' = Emit(DOMAIN sockets, "sdk:room:created",
                                       ok([room |-> room]))
                    /\ UNCHANGED <<users, now>>

-----------------------------------------------------------------------------
(* socket.on("sdk:room:join")                                              *)

\* the capacity test off by one: a room is full only above maxUsers
RoomIsFullOffByOne(members, room, userId) ==
    Cardinality(members) > room.maxUsers /\ userId \notin members

\* the capacity test without the exemption of current members
RoomIsFullForAll(members, room, userId) ==
    Cardinality(members) >= room.maxUsers

\* members.size >= room.maxUsers && !members.has(payload.userId)
RoomIsFull(members, room, userId) ==
    Cardinality(members) >= room.maxUsers /\ userId \notin members

\* the member set started afresh with the joiner
ReplaceMembers(members, userId) == {userId}

\* members.add(payload.userId)
AddMember(members, userId) == members \cup {userId}

JoinRoomError(p) ==
    IF p = Undefined THEN err("BAD_REQUEST", "Payload required")
    ELSE IF ~isValidApiKey(p.apiKey) THEN err("UNAUTHORIZED", "Invalid apiKey")
    ELSE IF ~UsersHas(p.userId) THEN err("USER_NOT_FOUND", "User not found")
    ELSE IF ~RoomsHas(p.roomId) THEN err("ROOM_NOT_FOUND", "Room not found")
    ELSE IF RoomIsFull(roomMembers[p.roomId], RoomsGet(p.roomId), p.userId)
    THEN err("ROOM_FULL", "Room is full")
    ELSE NoError

\* (messagesByRoom.get(room.id) ?? []).slice(-50)
RecentMessages(roomId) == SliceLast(messagesByRoom[roomId], RecentLimit)

JoinRoom(c, p) ==
    /\ c \in DOMAIN sockets
    /\ LET e == JoinRoomError(p)
       IN  IF ~e.ok THEN Reject(c, "sdk:room:join", p, e)
           ELSE LET room == RoomsGet(p.roomId)
                IN  /\ roomMembers' =
                           [roomMembers EXCEPT ![room.id] = AddMember(@, p.userId)]
                    /\ sockets' = [sockets EXCEPT ![c] = @ \cup {room.id}]
                    /\ lastAck' =
                           [socket |-> c, event |-> "sdk:room:join", payload |-> p,
                            reply |-> ok([room |-> room,
                                          recentMessages |-> RecentMessages(room.id)])]
                    /\ emitted' = Emit(PresenceTargets(c, room.id), "sdk:presence:joined",
                                       ok([userId |-> p.userId, roomId |-> room.id]))
                    /\ UNCHANGED <<users, rooms, messagesByRoom, now>>

-----------------------------------------------------------------------------
(* socket.on("sdk:message:send")                                           *)

\* membership looked up in any room instead of the addressed one
IsMemberOfAnyRoom(roomId, userId) ==
    \E r \in DOMAIN roomMembers : userId \in roomMembers[r]

\* members?.has(user.id)
IsMember(roomId, userId) == userId \in roomMembers[roomId]

\* the room looked up before the sender
SendMessageErrorRoomFirst(p) ==
    IF p = Undefined THEN err("BAD_REQUEST", "Payload required")
    ELSE IF ~isValidApiKey(p.apiKey) THEN err("UNAUTHORIZED", "Invalid apiKey")
    ELSE IF ~RoomsHas(p.roomId) THEN err("ROOM_NOT_FOUND", "Room not found")
    ELSE IF ~UsersHas(p.userId) THEN err("USER_NOT_FOUND", "User not found")
    ELSE IF ~IsMember(p.roomId, p.userId)
    THEN err("FORBIDDEN", "User is not in the room")
    ELSE IF Trim(p.text) = << >>
    THEN err("EMPTY_MESSAGE", "Message cannot be empty")
    ELSE IF Len(Trim(p.text)) > MaxTextLen
    THEN err("MESSAGE_TOO_LONG", "Max 2000 chars")
    ELSE NoError

\* the length limit applied to the text as sent, before trimming
SendMessageErrorUntrimmed(p) ==
    IF p = Undefined THEN err("BAD_REQUEST", "Payload required")
    ELSE IF ~isValidApiKey(p.apiKey) THEN err("UNAUTHORIZED", "Invalid apiKey")
    ELSE IF ~UsersHas(p.userId) THEN err("USER_NOT_FOUND", "User not found")
    ELSE IF ~RoomsHas(p.roomId) THEN err("ROOM_NOT_FOUND", "Room not found")
    ELSE IF ~IsMember(p.roomId, p.userId)
    THEN err("FORBIDDEN", "User is not in the room")
    ELSE IF Trim(p.text) = << >>
    THEN err("EMPTY_MESSAGE", "Message cannot be empty")
    ELSE IF Len(p.text) > MaxTextLen
    THEN err("MESSAGE_TOO_LONG", "Max 2000 chars")
    ELSE NoError

SendMessageError(p) ==
    IF p = Undefined THEN err("BAD_REQUEST", "Payload required")
    ELSE IF ~isValidApiKey(p.apiKey) THEN err("UNAUTHORIZED", "Invalid apiKey")
    ELSE IF ~UsersHas(p.userId) THEN err("USER_NOT_FOUND", "User not found")
    ELSE IF ~RoomsHas(p.roomId) THEN err("ROOM_NOT_FOUND", "Room not found")
    ELSE IF ~IsMember(p.roomId, p.userId)
    THEN err("FORBIDDEN", "User is not in the room")
    ELSE IF Trim(p.text) = << >>
    THEN err("EMPTY_MESSAGE", "Message cannot be empty")
    ELSE IF Len(Trim(p.text)) > MaxTextLen
    THEN err("MESSAGE_TOO_LONG", "Max 2000 chars")
    ELSE NoError

NewMessage(p) ==
    [id |-> NewMessageId,
     roomId |-> p.roomId,
     senderUserId |-> p.userId,
     senderName |-> users[p.userId].name,
     text |-> Trim(p.text)]

\* the message put at the head of the list (unshift)
PushFront(list, msg) == <<msg>> \o list

\* list.push(msg)
Push(list, msg) == Append(list, msg)

SendMessage(c, p) ==
    /\ c \in DOMAIN sockets
    /\ LET e == SendMessageError(p)
       IN  IF ~e.ok THEN Reject(c, "sdk:message:send", p, e)
           ELSE LET msg == NewMessage(p)
                IN  /\ messagesByRoom' =
                           [messagesByRoom EXCEPT ![p.roomId] = Push(@, msg)]
                    /\ emitted' = Emit(MessageTargets(c, p.roomId), "sdk:message:new",
                                       ok([message |-> msg]))
                    /\ lastAck' = [socket |-> c, event |-> "sdk:message:send",
                                   payload |-> p, reply |-> ok([message |-> msg])]
                    /\ UNCHANGED <<users, rooms, roomMembers, sockets, now>>

-----------------------------------------------------------------------------
(* Requests the clients send                                               *)

Alice == <<"A","l","i","c","e">>

AliceMail == <<"A","l","@","x",".","i","o">>

Born2000 == <<"2","0","0","0","-","0","1","-","0","1">>

Born2010 == <<"2","0","1","0","-","0","1","-","0","1">>

TestRoom == <<" ","T","e","s","t"," ","R","o","o","m">>

Blank == <<" "," ">>

Hi == <<" ","h","i"," ">>

Yesterday == <<"2","0","2","6","-","1","1","-","0","5">>

Tomorrow == <<"2","0","2","6","-","1","1","-","0","7">>

NotADate == <<"s","o","o","n">>

LongRoomName == [i \in 1..(MaxRoomNameLen + 1) |-> "r"]

UserIdsIn(n) == {"u_" \o ToString(k) : k \in 1..n} \cup {"u_404"}

RoomIdsIn(n) ==
    {"room_001"} \cup {"room_" \o ToString(k) : k \in 3..(2 + n)} \cup {"room_404"}

GoodUser ==
    [apiKey |-> "demo-key", name |-> Alice, email |-> AliceMail,
     dob |-> Born2000, agreedToTerms |-> TRUE]

CreateUserPayloads ==
    {Undefined, GoodUser, [GoodUser EXCEPT !.apiKey = "wrong-key"],
     [GoodUser EXCEPT !.dob = Born2010]}

CreateRoomPayloads(U) ==
    {Undefined}
    \cup {[apiKey |-> "demo-key", userId |-> u, roomName |-> TestRoom, maxUsers |-> 1] :
             u \in U}
    \cup {[apiKey |-> "wrong-key", userId |-> "u_1", roomName |-> TestRoom],
          [apiKey |-> "demo-key", userId |-> "u_1", roomName |-> Blank],
          [apiKey |-> "demo-key", userId |-> "u_1", roomName |-> TestRoom,
           startDate |-> Yesterday]}

JoinRoomPayloads(U, R) ==
    {Undefined}
    \cup {[apiKey |-> "demo-key", userId |-> u, roomId |-> r] : u \in U, r \in R}
    \cup {[apiKey |-> "wrong-key", userId |-> "u_1", roomId |-> "room_001"]}

SendMessagePayloads(U, R) ==
    {Undefined}
    \cup {[apiKey |-> "demo-key", userId |-> u, roomId |-> r, text |-> Hi] :
             u \in U, r \in R}
    \cup {[apiKey |-> "wrong-key", userId |-> "u_1", roomId |-> "room_001", text |-> Hi],
          [apiKey |-> "demo-key", userId |-> "u_1", roomId |-> "room_001",
           text |-> Blank]}

ListRoomsPayloads == {Undefined, [apiKey |-> "demo-key"], [apiKey |-> "wrong-key"]}

-----------------------------------------------------------------------------
(* The process: any socket of S may connect, disconnect and send any       *)
(* request of P; a request that would succeed is taken only below the cap  *)

DoConnect(S) == \E c \in S : Connect(c)

DoDisconnect(S) == \E c \in S : Disconnect(c)

DoListRooms(S, P) == \E c \in S, p \in P : ListRooms(c, p)

DoGetMessages(R) == \E r \in R : GetMessages(r)

DoCreateUser(S, P, cap) ==
    \E c \in S, p \in P :
        /\ CreateUserError(p).ok => Cardinality(DOMAIN users) < cap
        /\ CreateUser(c, p)

DoCreateRoom(S, P, cap) ==
    \E c \in S, p \in P :
        /\ CreateRoomError(p).ok => Len(rooms) < 2 + cap
        /\ CreateRoom(c, p)

DoJoinRoom(S, P) == \E c \in S, p \in P : JoinRoom(c, p)

DoSendMessage(S, P, cap) ==
    \E c \in S, p \in P :
        /\ SendMessageError(p).ok => TotalMessages < cap
        /\ SendMessage(c, p)

-----------------------------------------------------------------------------
(* Spec: the stores under every interleaving of requests                   *)

StoreSockets == 1..NumSockets

StoreCreateRoomPayloads == CreateRoomPayloads({"u_1", "u_404"})

StoreJoinRoomPayloads ==
    JoinRoomPayloads(UserIdsIn(MaxUsers), RoomIdsIn(MaxNewRooms))

StoreSendMessagePayloads ==
    SendMessagePayloads(UserIdsIn(MaxUsers), RoomIdsIn(MaxNewRooms))

Next ==
    \/ DoConnect(StoreSockets)
    \/ DoDisconnect(StoreSockets)
    \/ DoListRooms(StoreSockets, ListRoomsPayloads)
    \/ GetRooms
    \/ DoGetMessages(RoomIdsIn(MaxNewRooms))
    \/ DoCreateUser(StoreSockets, CreateUserPayloads, MaxUsers)
    \/ DoCreateRoom(StoreSockets, StoreCreateRoomPayloads, MaxNewRooms)
    \/ DoJoinRoom(StoreSockets, StoreJoinRoomPayloads)
    \/ DoSendMessage(StoreSockets, StoreSendMessagePayloads, MaxMsgs)

Spec == Init /\ [][Next]_vars

-----------------------------------------------------------------------------
(* SpecFan: well-formed requests from several sockets to a seed room and   *)
(* to a room made on demand, to follow who receives which event            *)

FanSocketSet == 1..FanSockets

FanUserIds == {"u_" \o ToString(k) : k \in 1..FanUsers}

FanRoomIds == {"room_001"} \cup {"room_" \o ToString(k) : k \in 3..(2 + FanNewRooms)}

FanCreateRoomPayloads ==
    {[apiKey |-> "demo-key", userId |-> "u_1", roomName |-> TestRoom]}

FanJoinRoomPayloads ==
    {[apiKey |-> "demo-key", userId |-> u, roomId |-> r] :
        u \in FanUserIds, r \in FanRoomIds}

FanSendMessagePayloads ==
    {[apiKey |-> "demo-key", userId |-> u, roomId |-> r, text |-> Hi] :
        u \in FanUserIds, r \in FanRoomIds}

NextFan ==
    \/ DoConnect(FanSocketSet)
    \/ DoDisconnect(FanSocketSet)
    \/ DoCreateUser(FanSocketSet, {GoodUser}, FanUsers)
    \/ DoCreateRoom(FanSocketSet, FanCreateRoomPayloads, FanNewRooms)
    \/ DoJoinRoom(FanSocketSet, FanJoinRoomPayloads)
    \/ DoSendMessage(FanSocketSet, FanSendMessagePayloads, FanMsgs)

SpecFan == Init /\ [][NextFan]_vars

-----------------------------------------------------------------------------
(* SpecLog: one member keeps sending to a seed room and the log is read    *)
(* back by joining again and over HTTP                                     *)

LogJoin == [apiKey |-> "demo-key", userId |-> "u_1", roomId |-> "room_001"]

LogSend == [apiKey |-> "demo-key", userId |-> "u_1", roomId |-> "room_001", text |-> Hi]

NextLog ==
    \/ DoConnect({1})
    \/ DoCreateUser({1}, {GoodUser}, 1)
    \/ DoJoinRoom({1}, {LogJoin})
    \/ DoSendMessage({1}, {LogSend}, MaxLogLen)
    \/ DoGetMessages({"room_001", "room_404"})

SpecLog == Init /\ [][NextLog]_vars

-----------------------------------------------------------------------------
(* SpecProbe: one socket and one user; room-creation requests range over   *)
(* every combination of valid and invalid fields                           *)

\* requested sizes below, inside and above the allowed range
ProbeMaxUsers == {-1, 0, 1, 2, 3, 9, 10, 11, 99}

ProbeCreateRoomPayloads ==
    {Undefined}
    \cup {[apiKey |-> k, userId |-> u, roomName |-> n] :
             k \in {"demo-key", "wrong-key"}, u \in {"u_1", "u_404"},
             n \in {TestRoom, Blank, << >>, LongRoomName}}
    \cup {[apiKey |-> k, userId |-> u, roomName |-> n, startDate |-> d] :
             k \in {"demo-key", "wrong-key"}, u \in {"u_1", "u_404"},
             n \in {TestRoom, Blank, << >>, LongRoomName},
             d \in {<< >>, Yesterday, IsoDay(StartDay), Tomorrow, NotADate}}
    \cup {[apiKey |-> "demo-key", userId |-> "u_1", roomName |-> TestRoom,
           maxUsers |-> n] : n \in ProbeMaxUsers}

NextProbe ==
    \/ DoConnect({1})
    \/ DoDisconnect({1})
    \/ DoCreateUser({1}, CreateUserPayloads, ProbeUsers)
    \/ DoCreateRoom({1}, ProbeCreateRoomPayloads, ProbeNewRooms)

SpecProbe == Init /\ [][NextProbe]_vars

-----------------------------------------------------------------------------
(* SpecIso: several identities ask, over several sockets, to join a room   *)
(* made on demand that holds two; requests that fail are among them        *)

IsoSocketSet == 1..IsoSockets

IsoUserIds == {"u_" \o ToString(k) : k \in 1..IsoUsers}

IsoCreateRoomPayloads ==
    {[apiKey |-> "demo-key", userId |-> "u_1", roomName |-> TestRoom]}

IsoJoinRoomPayloads ==
    {Undefined, [apiKey |-> "wrong-key", userId |-> "u_1", roomId |-> "room_3"]}
    \cup {[apiKey |-> "demo-key", userId |-> u, roomId |-> r] :
             u \in IsoUserIds \cup {"u_404"}, r \in {"room_3", "room_404"}}

IsoSendMessagePayloads ==
    {[apiKey |-> "demo-key", userId |-> u, roomId |-> "room_3", text |-> Hi] :
        u \in IsoUserIds}

NextIso ==
    \/ DoConnect(IsoSocketSet)
    \/ DoDisconnect(IsoSocketSet)
    \/ DoCreateUser(IsoSocketSet, {GoodUser}, IsoUsers)
    \/ DoCreateRoom(IsoSocketSet, IsoCreateRoomPayloads, 1)
    \/ DoJoinRoom(IsoSocketSet, IsoJoinRoomPayloads)
    \/ DoSendMessage(IsoSocketSet, IsoSendMessagePayloads, IsoMsgs)

SpecIso == Init /\ [][NextIso]_vars

-----------------------------------------------------------------------------
(* SpecAge: the server is started on any day of a range of winters and is  *)
(* sent one registration whose birth date is any day of the winters 18     *)
(* years earlier (December to March, leap days included)                   *)

AgeMonths == {1, 2, 3, 12}

AgeDays(years) ==
    {x \in [y : years, m : AgeMonths, d : 1..31] : x.d <= DaysInMonth(x.y, x.m)}

AgeTodays == AgeDays((2025 - AgeYears)..2024)

AgeDobs == {IsoDay(x) : x \in AgeDays((2007 - AgeYears)..2006)}

AgePayloads == {[GoodUser EXCEPT !.dob = d] : d \in AgeDobs}

InitAge ==
    /\ now \in AgeTodays
    /\ users = << >>
    /\ rooms = seedRooms
    /\ roomMembers = [r \in {"room_001", "room_002"} |-> {}]
    /\ messagesByRoom = [r \in {"room_001", "room_002"} |-> << >>]
    /\ sockets = << >>
    /\ lastAck = NoAck
    /\ emitted = {}

\* the first request a socket sends after connecting
DoFirstCreateUser(S, P) ==
    /\ lastAck = NoAck
    /\ DoCreateUser(S, P, 1)

NextAge ==
    \/ DoConnect({1})
    \/ DoFirstCreateUser({1}, AgePayloads)

SpecAge == InitAge /\ [][NextAge]_vars

-----------------------------------------------------------------------------
(* SpecUser: one socket; registration requests range over every            *)
(* combination of valid and invalid fields                                 *)

Al1ce == <<"A","l","1","c","e">>

Name30 == [i \in 1..MaxNameLen |-> "n"]

Name31 == [i \in 1..(MaxNameLen + 1) |-> "n"]

NoMail == <<"A","l"," ","x",".","i","o">>

RegNames == {Alice, << >>, Al1ce, Name30, Name31}

RegEmails == {AliceMail, << >>, NoMail}

RegDobs == {Born2000, << >>, Born2010, NotADate}

RegPayloads ==
    {Undefined}
    \cup {[apiKey |-> k, name |-> n, email |-> e, dob |-> d, agreedToTerms |-> t] :
             k \in {"demo-key", "wrong-key"}, t \in BOOLEAN,
             n \in RegNames, e \in RegEmails, d \in RegDobs}

NextUser ==
    \/ DoConnect({1})
    \/ DoDisconnect({1})
    \/ DoCreateUser({1}, RegPayloads, RegUsers)

SpecUser == Init /\ [][NextUser]_vars

-----------------------------------------------------------------------------
(* SpecSend: one socket and one user who joins a seed room; message        *)
(* requests range over every combination of valid and invalid fields       *)

Text2000 == [i \in 1..MaxTextLen |-> "x"]

Padded2000 == <<" ", "\t">> \o Text2000 \o <<"\n">>

Text2001 == [i \in 1..(MaxTextLen + 1) |-> "x"]

Padded2001 == <<" ">> \o Text2001 \o <<" ">>

\* one valid text, one empty after trimming, one too long
SendTexts == {Hi, Blank, Text2001}

\* the texts around the limits of the trimmed length
SendEdgeTexts == {<< >>, <<"k">>, Text2000, Padded2000, Padded2001}

SendJoinPayloads ==
    {[apiKey |-> "demo-key", userId |-> u, roomId |-> "room_001"] :
        u \in {"u_" \o ToString(k) : k \in 1..SendUsers}}

SendProbePayloads ==
    {Undefined}
    \cup {[apiKey |-> k, userId |-> u, roomId |-> r, text |-> t] :
             k \in {"demo-key", "wrong-key"}, u \in {"u_1", "u_404"},
             r \in {"room_001", "room_002", "room_404"}, t \in SendTexts}
    \cup {[apiKey |-> "demo-key", userId |-> "u_1", roomId |-> "room_001", text |-> t] :
             t \in SendEdgeTexts}

NextSend ==
    \/ DoConnect({1})
    \/ DoCreateUser({1}, {GoodUser}, SendUsers)
    \/ DoJoinRoom({1}, SendJoinPayloads)
    \/ DoSendMessage({1}, SendProbePayloads, SendMsgs)

SpecSend == Init /\ [][NextSend]_vars

-----------------------------------------------------------------------------
(* Reading a step: the request just answered and its reply                 *)

Req == lastAck'.payload

Reply == lastAck'.reply

Answered(event) == lastAck'.event = event

Code == IF Reply.ok THEN "OK" ELSE Reply.error.code

Authorised == Req # Undefined /\ Req.apiKey = "demo-key"

\* delivery of `event` with payload `data` to socket s, in the step's events
Delivered(s, event, data) == [to |-> s, event |-> event, data |-> data] \in emitted'

ReceivedBy(event) == {e.to : e \in {x \in emitted' : x.event = event}}

IsPrefix(a, b) == Len(a) <= Len(b) /\ \A i \in 1..Len(a) : a[i] = b[i]

-----------------------------------------------------------------------------
C2_JoinStep ==
    (/\ Answered("sdk:room:join")
     /\ Authorised
     /\ Req.userId \in DOMAIN users
     /\ \E i \in 1..Len(rooms) : rooms[i].id = Req.roomId)
    => LET r == Req.roomId
           room == CHOOSE x \in Range(rooms) : x.id = r
           full == Req.userId \notin roomMembers[r]
                   /\ Cardinality(roomMembers[r]) >= room.maxUsers
       IN  /\ full <=> Code = "ROOM_FULL"
           /\ ~full <=> Reply.ok

(* C2: a JoinRoom with an authorised apiKey, an existing identity and an   *)
(* existing room is answered ROOM_FULL exactly when the identity is not    *)
(* yet a member and the member count has reached maxUsers; in every other  *)
(* case it succeeds, a member re-joining a room at capacity included.      *)
C2_JoinRoomFull == [][C2_JoinStep]_vars

\* the creator of a room that is at capacity has just joined it again
C2_Witness ==
    /\ lastAck.event = "sdk:room:join"
    /\ lastAck.reply.ok
    /\ lastAck.reply.data.room.createdByUserId = lastAck.payload.userId
    /\ Cardinality(roomMembers[lastAck.payload.roomId])
          = lastAck.reply.data.room.maxUsers

\* what C3 asks of a step
C3_SendStep ==
    /\ (/\ Answered("sdk:message:send")
        /\ Authorised
        /\ Req.userId \in DOMAIN users
        /\ Req.roomId \in DOMAIN roomMembers
        /\ Req.userId \notin roomMembers[Req.roomId])
       => /\ Code = "FORBIDDEN"
          /\ messagesByRoom' = messagesByRoom
          /\ emitted' = {}
    /\ \A r \in DOMAIN messagesByRoom :
          \A i \in (Len(messagesByRoom[r]) + 1)..Len(messagesByRoom'[r]) :
              messagesByRoom'[r][i].senderUserId \in roomMembers[r]

(* C3: a SendMessage with an authorised apiKey, an existing identity and   *)
(* an existing room of which the identity is no member is answered         *)
(* FORBIDDEN, leaves every log as it was and delivers no event; and every  *)
(* message a step appends to a room's log was sent by an identity that     *)
(* was a member of that room when it was sent.                             *)
C3_Forbidden == [][C3_SendStep]_vars

\* an existing identity has just been refused in an existing room while
\* that room already holds a message of one of its members
C3_Witness ==
    /\ lastAck.event = "sdk:message:send"
    /\ ~lastAck.reply.ok
    /\ lastAck.reply.error.code = "FORBIDDEN"
    /\ lastAck.payload.userId \in DOMAIN users
    /\ messagesByRoom[lastAck.payload.roomId] # << >>

\* what C4 asks of a step
C4_Step ==
    /\ \A r \in DOMAIN messagesByRoom :
          /\ r \in DOMAIN messagesByRoom'
          /\ IsPrefix(messagesByRoom[r], messagesByRoom'[r])
    /\ IF Answered("sdk:message:send") /\ Reply.ok
       THEN /\ messagesByRoom'[Req.roomId]
                  = messagesByRoom[Req.roomId] \o <<Reply.data.message>>
            /\ \A r \in DOMAIN messagesByRoom \ {Req.roomId} :
                  messagesByRoom'[r] = messagesByRoom[r]
       ELSE \A r \in DOMAIN messagesByRoom : messagesByRoom'[r] = messagesByRoom[r]

(* C4: each room's log is append-only and in send order: a successful      *)
(* SendMessage to room r puts exactly its message at the end of r's log,   *)
(* no step removes, reorders or changes an entry (the old log is a prefix  *)
(* of the new one) and the logs of the other rooms stay as they were.      *)
C4_AppendOnly == [][C4_Step]_vars

\* a second message has just been appended to a log that held one
C4_Witness ==
    /\ lastAck.event = "sdk:message:send"
    /\ lastAck.reply.ok
    /\ Len(messagesByRoom[lastAck.payload.roomId]) = 2
    /\ messagesByRoom[lastAck.payload.roomId][2] = lastAck.reply.data.message
    /\ messagesByRoom[lastAck.payload.roomId][1] # lastAck.reply.data.message

\* what C5 asks of a step
C5_Step ==
    (Answered("sdk:message:send") /\ Reply.ok)
    => LET r == Req.roomId
           c == lastAck'.socket
           msg == messagesByRoom'[r][Len(messagesByRoom'[r])]
           subscribed == {s \in DOMAIN sockets : r \in sockets[s]}
           event == [ok |-> TRUE, data |-> [message |-> msg]]
       IN  /\ emitted' = {[to |-> s, event |-> "sdk:message:new", data |-> event] :
                             s \in subscribed}
           /\ c \in subscribed => Delivered(c, "sdk:message:new", event)
           /\ Reply = event

(* C5: on a successful SendMessage to room r the MessageCreated event with *)
(* the stored message goes to exactly the sockets subscribed to r, the     *)
(* sending socket not being left out when it is one of them, and the       *)
(* sender's acknowledgement carries the same message.                      *)
C5_MessageFanout == [][C5_Step]_vars

\* the sender's socket and another socket are both subscribed and both
\* have just received the message
C5_Witness ==
    /\ lastAck.event = "sdk:message:send"
    /\ lastAck.reply.ok
    /\ \E e \in emitted : e.to = lastAck.socket /\ e.event = "sdk:message:new"
    /\ \E e \in emitted : e.to # lastAck.socket /\ e.event = "sdk:message:new"

\* C5 as first stated: the socket that issued the request receives the
\* MessageCreated event on every successful SendMessage, together with
\* every socket subscribed to the room.
C5_SenderAlwaysReceives ==
    [][(Answered("sdk:message:send") /\ Reply.ok)
       => \A s \in {x \in DOMAIN sockets : Req.roomId \in sockets[x]}
                   \cup {lastAck'.socket} :
             Delivered(s, "sdk:message:new", Reply)]_vars

\* what C6 asks of a step
C6_Step ==
    /\ (lastAck'.event # "none" /\ ~Reply.ok)
       => /\ UNCHANGED <<users, rooms, roomMembers, messagesByRoom, sockets>>
          /\ emitted' = {}
    /\ (Answered("sdk:user:create") /\ Reply.ok)
       => LET u == Reply.data.user
          IN  /\ u.id \notin DOMAIN users
              /\ DOMAIN users' = DOMAIN users \cup {u.id}
              /\ users'[u.id] = u
              /\ \A i \in DOMAIN users : users'[i] = users[i]
    /\ (Answered("sdk:room:create") /\ Reply.ok)
       => LET room == Reply.data.room
          IN  /\ rooms' = Append(rooms, room)
              /\ roomMembers'[room.id] = {Req.userId}
              /\ messagesByRoom'[room.id] = << >>
              /\ room.id \in sockets'[lastAck'.socket]
              /\ \A s \in DOMAIN sockets :
                    Delivered(s, "sdk:room:created", [ok |-> TRUE, data |-> [room |-> room]])
    /\ (Answered("sdk:room:join") /\ Reply.ok)
       => /\ Req.userId \in roomMembers'[Req.roomId]
          /\ Req.roomId \in sockets'[lastAck'.socket]
    /\ (Answered("sdk:room:list") \/ Answered("GET /api/rooms")
        \/ Answered("GET /api/rooms/:roomId/messages"))
       => UNCHANGED <<users, rooms, roomMembers, messagesByRoom, sockets>>
    /\ (Answered("sdk:message:send") /\ Reply.ok)
       => /\ Len(messagesByRoom'[Req.roomId]) = Len(messagesByRoom[Req.roomId]) + 1
          /\ messagesByRoom'[Req.roomId][Len(messagesByRoom'[Req.roomId])]
                = Reply.data.message

(* C6: a request answered with an error leaves the identity map, the room  *)
(* map, every membership set, every log and every socket's subscriptions   *)
(* unchanged and delivers no event; a request answered with success has    *)
(* applied its whole mutation.                                             *)
C6_NoPartialFailure == [][C6_Step]_vars

\* with a room made on demand and subscribed to, a join has just been
\* refused because the room is full
C6_Witness ==
    /\ lastAck.event = "sdk:room:join"
    /\ ~lastAck.reply.ok
    /\ lastAck.reply.error.code = "ROOM_FULL"
    /\ lastAck.payload.roomId \notin sockets[lastAck.socket]

\* what C7 asks of a step
C7_CreatorIsMember ==
    \A i \in 1..Len(rooms) :
        rooms[i].createdByUserId # "system"
        => rooms[i].createdByUserId \in roomMembers[rooms[i].id]

C7_Step ==
    /\ (Answered("sdk:room:create") /\ Reply.ok)
       => /\ roomMembers'[Reply.data.room.id] = {Req.userId}
          /\ messagesByRoom'[Reply.data.room.id] = << >>
    /\ (/\ Answered("sdk:message:send")
        /\ Authorised
        /\ \E i \in 1..Len(rooms) :
              /\ rooms[i].id = Req.roomId
              /\ rooms[i].createdByUserId = Req.userId
        /\ Req.text = Hi)
       => Reply.ok

(* C7: right after a successful CreateRoom by identity u the new room's    *)
(* members are exactly {u} and its log is empty; u can send to the room    *)
(* without joining it; and the creator of a room made on demand is a       *)
(* member of it in every state.                                            *)
C7_CreatorAutoJoin == []C7_CreatorIsMember /\ [][C7_Step]_vars

\* the creator's message is in the log of a room whose only member is the
\* creator and which no socket has joined by a JoinRoom
C7_Witness ==
    \E i \in 1..Len(rooms) :
        /\ rooms[i].createdByUserId # "system"
        /\ roomMembers[rooms[i].id] = {rooms[i].createdByUserId}
        /\ lastAck.event = "sdk:message:send"
        /\ lastAck.reply.ok
        /\ lastAck.payload.roomId = rooms[i].id
        /\ lastAck.payload.userId = rooms[i].createdByUserId

\* what C8 asks of a step
C8_Step ==
    (Answered("sdk:room:join") /\ Reply.ok)
    => LET r == Req.roomId
           c == lastAck'.socket
           others == {s \in DOMAIN sockets \ {c} : r \in sockets[s]}
           event == [ok |-> TRUE, data |-> [userId |-> Req.userId, roomId |-> r]]
       IN  /\ emitted' = {[to |-> s, event |-> "sdk:presence:joined", data |-> event] :
                             s \in others}
           /\ c \notin ReceivedBy("sdk:presence:joined")
           /\ r \in sockets'[c]

(* C8: on a successful JoinRoom for room r on socket c, PresenceJoined     *)
(* {userId, roomId} goes to every other socket subscribed to r, never to c *)
(* itself, and after the join c is subscribed to r.                        *)
C8_PresenceFanout == [][C8_Step]_vars

\* a socket already subscribed to the room has just been told of a join
\* made on another socket
C8_Witness ==
    /\ lastAck.event = "sdk:room:join"
    /\ lastAck.reply.ok
    /\ \E e \in emitted :
          /\ e.event = "sdk:presence:joined"
          /\ e.to # lastAck.socket
          /\ e.data.data.roomId = lastAck.payload.roomId

\* what C9 asks of a step
C9_Step ==
    /\ (Answered("sdk:room:join") /\ Reply.ok)
       => LET log == messagesByRoom[Req.roomId]
              n == Len(log)
              k == IF n < 50 THEN n ELSE 50
              recent == Reply.data.recentMessages
          IN  /\ Len(recent) = k
              /\ \A i \in 1..k : recent[i] = log[n - k + i]
    /\ (Answered("GET /api/rooms/:roomId/messages") /\ Reply.ok)
       => Reply.data = messagesByRoom[Req.roomId]

(* C9: a successful JoinRoom returns as recentMessages exactly the last    *)
(* min(50, length) entries of the room's log, in log order, and the        *)
(* history query returns the whole log.                                    *)
C9_RecentMessages == [][C9_Step]_vars

\* a join has just returned 50 messages of a log that holds more, and the
\* first of them is not the first of the log
C9_Witness ==
    /\ lastAck.event = "sdk:room:join"
    /\ lastAck.reply.ok
    /\ Len(messagesByRoom[lastAck.payload.roomId]) > 50
    /\ Len(lastAck.reply.data.recentMessages) = 50
    /\ lastAck.reply.data.recentMessages[1] # messagesByRoom[lastAck.payload.roomId][1]

\* what the checks of CreateRoom find wrong with a request
RoomNameOk(p) == Len(Trim(p.roomName)) \in 1..50

StartDateOk(p) ==
    \/ "startDate" \notin DOMAIN p
    \/ p.startDate = << >>
    \/ /\ ParseDate(p.startDate) # InvalidDate
       /\ DayGeq(ParseDate(p.startDate), now)

\* what C10 asks of a step
C10_Step ==
    (Answered("sdk:room:create") /\ Req # Undefined)
    => Code = IF Req.apiKey # "demo-key" THEN "UNAUTHORIZED"
              ELSE IF Req.userId \notin DOMAIN users THEN "USER_NOT_FOUND"
              ELSE IF ~RoomNameOk(Req) THEN "INVALID_ROOM_NAME"
              ELSE IF ~StartDateOk(Req) THEN "INVALID_START_DATE"
              ELSE "OK"

(* C10: a CreateRoom request that carries a payload is answered with the   *)
(* first violated rule in the order apiKey (UNAUTHORIZED), creator exists  *)
(* (USER_NOT_FOUND), room name (INVALID_ROOM_NAME), start date             *)
(* (INVALID_START_DATE); a request with a valid apiKey, an invalid room    *)
(* name and an unknown userId is answered USER_NOT_FOUND.                  *)
C10_CreateRoomOrder == [][C10_Step]_vars

\* a request with a valid apiKey, a blank room name and an unknown userId
\* has just been answered USER_NOT_FOUND while a user exists
C10_Witness ==
    /\ lastAck.event = "sdk:room:create"
    /\ lastAck.payload # Undefined
    /\ lastAck.payload.apiKey = "demo-key"
    /\ lastAck.payload.userId \notin DOMAIN users
    /\ ~RoomNameOk(lastAck.payload)
    /\ lastAck.reply.error.code = "USER_NOT_FOUND"
    /\ users # << >>

\* C10 as first stated: the order is apiKey, room name, start date and only
\* then the creator, so that request is answered INVALID_ROOM_NAME.
C10_UserCheckedLast ==
    [][(Answered("sdk:room:create") /\ Req # Undefined)
       => Code = IF Req.apiKey # "demo-key" THEN "UNAUTHORIZED"
                 ELSE IF ~RoomNameOk(Req) THEN "INVALID_ROOM_NAME"
                 ELSE IF ~StartDateOk(Req) THEN "INVALID_START_DATE"
                 ELSE IF Req.userId \notin DOMAIN users THEN "USER_NOT_FOUND"
                 ELSE "OK"]_vars

\* the length of a text once the white space at both ends is taken off
TrimmedLen(t) ==
    LET blank(i) == t[i] \in {" ", "\t", "\n"}
    IN  IF \A i \in 1..Len(t) : blank(i) THEN 0
        ELSE Len(t)
             - (CHOOSE k \in 0..Len(t) : ~blank(k + 1) /\ \A j \in 1..k : blank(j))
             - (CHOOSE k \in 0..Len(t) :
                   ~blank(Len(t) - k) /\ \A j \in (Len(t) - k + 1)..Len(t) : blank(j))

\* what C11 asks of a step
C11_Step ==
    (Answered("sdk:message:send") /\ Req # Undefined)
    => Code = IF Req.apiKey # "demo-key" THEN "UNAUTHORIZED"
              ELSE IF Req.userId \notin DOMAIN users THEN "USER_NOT_FOUND"
              ELSE IF Req.roomId \notin DOMAIN roomMembers THEN "ROOM_NOT_FOUND"
              ELSE IF Req.userId \notin roomMembers[Req.roomId] THEN "FORBIDDEN"
              ELSE IF TrimmedLen(Req.text) = 0 THEN "EMPTY_MESSAGE"
              ELSE IF TrimmedLen(Req.text) > 2000 THEN "MESSAGE_TOO_LONG"
              ELSE "OK"

(* C11: a SendMessage request that carries a payload is answered with the  *)
(* first violated rule in the order apiKey (UNAUTHORIZED), sender exists   *)
(* (USER_NOT_FOUND), room exists (ROOM_NOT_FOUND), sender is a member      *)
(* (FORBIDDEN), trimmed text non-empty (EMPTY_MESSAGE), trimmed length at  *)
(* most 2000 (MESSAGE_TOO_LONG); a request with a valid apiKey naming an   *)
(* unknown room and an unknown identity is answered USER_NOT_FOUND.        *)
C11_SendMessageOrder == [][C11_Step]_vars

\* a request with a valid apiKey, an unknown room and an unknown identity
\* has just been answered USER_NOT_FOUND while a user exists
C11_Witness ==
    /\ lastAck.event = "sdk:message:send"
    /\ lastAck.payload # Undefined
    /\ lastAck.payload.apiKey = "demo-key"
    /\ lastAck.payload.userId \notin DOMAIN users
    /\ lastAck.payload.roomId \notin DOMAIN roomMembers
    /\ lastAck.reply.error.code = "USER_NOT_FOUND"
    /\ users # << >>

\* C11 as first stated: the room is looked up before the sender, so that
\* request is answered ROOM_NOT_FOUND.
C11_RoomCheckedFirst ==
    [][(Answered("sdk:message:send") /\ Req # Undefined)
       => Code = IF Req.apiKey # "demo-key" THEN "UNAUTHORIZED"
                 ELSE IF Req.roomId \notin DOMAIN roomMembers THEN "ROOM_NOT_FOUND"
                 ELSE IF Req.userId \notin DOMAIN users THEN "USER_NOT_FOUND"
                 ELSE IF Req.userId \notin roomMembers[Req.roomId] THEN "FORBIDDEN"
                 ELSE IF TrimmedLen(Req.text) = 0 THEN "EMPTY_MESSAGE"
                 ELSE IF TrimmedLen(Req.text) > 2000 THEN "MESSAGE_TOO_LONG"
                 ELSE "OK"]_vars

\* what the checks of CreateUser find wrong with a request
NameOk(p) == Len(p.name) \in 1..30 /\ TestName(p.name)

EmailOk(p) == TestEmail(p.email)

DobOk(p) == isAtLeast18(p.dob)

\* what C12 asks of a step
C12_Step ==
    /\ (Answered("sdk:user:create") /\ Req # Undefined)
       => Code = IF Req.apiKey # "demo-key" THEN "UNAUTHORIZED"
                 ELSE IF ~Req.agreedToTerms THEN "TERMS_REQUIRED"
                 ELSE IF ~NameOk(Req) THEN "INVALID_NAME"
                 ELSE IF ~EmailOk(Req) THEN "INVALID_EMAIL"
                 ELSE IF ~DobOk(Req) THEN "INVALID_DOB"
                 ELSE "OK"
    /\ users' # users
       => /\ Answered("sdk:user:create")
          /\ Reply.ok
          /\ Req.apiKey = "demo-key"
          /\ Req.agreedToTerms
          /\ NameOk(Req)
          /\ EmailOk(Req)
          /\ DobOk(Req)
    /\ (Answered("sdk:user:create") /\ Reply.ok)
       => DOMAIN users' = DOMAIN users \cup {Reply.data.user.id}

(* C12: a CreateUser request that carries a payload is answered with the   *)
(* first violated rule in the order apiKey (UNAUTHORIZED), terms           *)
(* (TERMS_REQUIRED), name (INVALID_NAME), email (INVALID_EMAIL), birth     *)
(* date (INVALID_DOB), whatever the later fields are; and an identity is   *)
(* added to the identity map only by a request that passes every check.    *)
C12_CreateUserOrder == [][C12_Step]_vars

\* a request with a valid apiKey and the terms agreed whose name, email and
\* birth date are all invalid has just been answered INVALID_NAME
C12_Witness ==
    /\ lastAck.event = "sdk:user:create"
    /\ lastAck.payload # Undefined
    /\ lastAck.payload.apiKey = "demo-key"
    /\ lastAck.payload.agreedToTerms
    /\ lastAck.payload.name = Al1ce
    /\ lastAck.payload.email = NoMail
    /\ lastAck.payload.dob = Born2010
    /\ lastAck.reply.error.code = "INVALID_NAME"

\* what C13 asks of a state
C13_InRange == \A i \in 1..Len(rooms) : rooms[i].maxUsers \in 2..10

\* what C13 asks of a step
C13_Step ==
    /\ (Answered("sdk:room:create") /\ Reply.ok)
       => LET stored == rooms'[Len(rooms')].maxUsers
          IN  /\ Len(rooms') = Len(rooms) + 1
              /\ Reply.data.room.maxUsers = stored
              /\ stored = IF "maxUsers" \notin DOMAIN Req THEN 2
                           ELSE IF Req.maxUsers < 2 THEN 2
                           ELSE IF Req.maxUsers > 10 THEN 10
                           ELSE Req.maxUsers
    /\ \A i \in 1..Len(rooms) :
          /\ i <= Len(rooms')
          /\ rooms'[i].id = rooms[i].id
          /\ rooms'[i].maxUsers = rooms[i].maxUsers

(* C13: every room of every reachable state has maxUsers in 2..10; a       *)
(* successful CreateRoom stores max(2, min(10, n)) for a requested integer *)
(* n (1 gives 2, 99 gives 10) and 2 when maxUsers is absent; and no step   *)
(* changes the maxUsers of a room that exists.                             *)
C13_MaxUsersClamped == []C13_InRange /\ [][C13_Step]_vars

\* a room asked for with maxUsers 99 has just been created with maxUsers 10
C13_Witness ==
    /\ lastAck.event = "sdk:room:create"
    /\ lastAck.reply.ok
    /\ "maxUsers" \in DOMAIN lastAck.payload
    /\ lastAck.payload.maxUsers = 99
    /\ rooms[Len(rooms)].maxUsers = 10

\* the room a room-scoped event is about
EventRoom(e) ==
    IF e.event = "sdk:message:new" THEN e.data.data.message.roomId
    ELSE e.data.data.roomId

RoomScoped(e) == e.event \in {"sdk:message:new", "sdk:presence:joined"}

\* socket s has, in this step, successfully created or joined room r
OwnSuccess(s, r) ==
    /\ lastAck'.socket = s
    /\ Reply.ok
    /\ \/ Answered("sdk:room:join") /\ Req.roomId = r
       \/ Answered("sdk:room:create") /\ Reply.data.room.id = r

\* what C14 asks of a step
C14_Step ==
    /\ (\E c \in DOMAIN sockets : c \notin DOMAIN sockets')
       => roomMembers' = roomMembers
    /\ \A c \in DOMAIN sockets' \ DOMAIN sockets : sockets'[c] = {}
    /\ \A e \in emitted' :
          RoomScoped(e) => e.to \in DOMAIN sockets /\ EventRoom(e) \in sockets[e.to]
    /\ \A c \in DOMAIN sockets \cap DOMAIN sockets' :
          \A r \in sockets'[c] \ sockets[c] :
              OwnSuccess(c, r) /\ (Answered("sdk:room:create") => r \notin DOMAIN roomMembers)
    /\ (/\ Answered("sdk:room:join")
        /\ Authorised
        /\ Req.roomId \in DOMAIN roomMembers
        /\ Req.userId \in roomMembers[Req.roomId])
       => /\ Reply.ok
          /\ Req.roomId \in sockets'[lastAck'.socket]
          /\ roomMembers' = roomMembers

(* C14: membership is kept by identity: a step in which a socket           *)
(* disconnects changes no membership set; a socket that connects is        *)
(* subscribed to no room, receives a MessageCreated or PresenceJoined of   *)
(* room r only once it is subscribed to r, and becomes subscribed to an    *)
(* existing room r only by its own successful JoinRoom of r; and a         *)
(* JoinRoom of r by an identity that is a member of r succeeds, r being    *)
(* at capacity or not, and subscribes the socket.                          *)
C14_MembershipByIdentity == [][C14_Step]_vars

\* a socket has just disconnected: a room made on demand is at capacity,
\* no socket is subscribed to it any more and another socket is connected
C14_Witness ==
    /\ lastAck = NoAck
    /\ emitted = {}
    /\ sockets # << >>
    /\ \E i \in 1..Len(rooms) :
          /\ rooms[i].createdByUserId # "system"
          /\ Cardinality(roomMembers[rooms[i].id]) = rooms[i].maxUsers
          /\ \A c \in DOMAIN sockets : rooms[i].id \notin sockets[c]

\* what C15 asks of a step
C15_Step ==
    /\ \A u \in DOMAIN users : u \in DOMAIN users' /\ users'[u] = users[u]
    /\ Len(rooms') >= Len(rooms)
    /\ \A i \in 1..Len(rooms) : rooms'[i] = rooms[i]
    /\ \A r \in DOMAIN roomMembers :
          r \in DOMAIN roomMembers' /\ roomMembers[r] \subseteq roomMembers'[r]

(* C15: state only grows: over every step no identity is removed or        *)
(* altered, no room is removed or has a field changed, and every room's    *)
(* membership set after the step contains the set before it.               *)
C15_StateOnlyGrows == [][C15_Step]_vars

\* after a disconnect, with no socket left, there are still an identity, a
\* room made on demand with its creator in it and a member in a seed room
C15_Witness ==
    /\ sockets = << >>
    /\ users # << >>
    /\ Len(rooms) > 2
    /\ roomMembers[rooms[3].id] # {}
    /\ roomMembers["room_001"] # {}

\* what C16 asks of a step
C16_Step ==
    /\ (/\ Answered("sdk:room:join")
        /\ Authorised
        /\ Req.roomId \in DOMAIN roomMembers
        /\ Req.userId \in roomMembers[Req.roomId])
       => /\ Reply.ok
          /\ roomMembers' = roomMembers
          /\ Cardinality(roomMembers'[Req.roomId]) = Cardinality(roomMembers[Req.roomId])
          /\ rooms' = rooms
          /\ messagesByRoom' = messagesByRoom
          /\ users' = users
    /\ (Answered("sdk:room:join") /\ Reply.ok)
       => /\ roomMembers'[Req.roomId] = roomMembers[Req.roomId] \cup {Req.userId}
          /\ \A r \in DOMAIN roomMembers \ {Req.roomId} : roomMembers'[r] = roomMembers[r]
          /\ rooms' = rooms
          /\ messagesByRoom' = messagesByRoom

(* C16: a JoinRoom by an identity that is already a member of the room     *)
(* succeeds and leaves every membership set, the rooms and the message     *)
(* logs as they were; a successful JoinRoom changes the stores by adding   *)
(* the identity to the room's members and nothing else, so a second        *)
(* identical JoinRoom leaves the stores as the first one left them.        *)
C16_JoinIdempotent == [][C16_Step]_vars

\* an identity whose message is already in the room's log, hence a member
\* before this request, has just joined the room again next to another
\* member
C16_Witness ==
    /\ lastAck.event = "sdk:room:join"
    /\ lastAck.reply.ok
    /\ \E i \in 1..Len(messagesByRoom[lastAck.payload.roomId]) :
          messagesByRoom[lastAck.payload.roomId][i].senderUserId = lastAck.payload.userId
    /\ Cardinality(roomMembers[lastAck.payload.roomId]) >= 2

\* `stored` is `sent` without the white space at its two ends
IsTrimOf(stored, sent) ==
    \E k \in 0..(Len(sent) - Len(stored)) :
        /\ \A j \in 1..k : sent[j] \in {" ", "\t", "\n"}
        /\ \A j \in (k + Len(stored) + 1)..Len(sent) : sent[j] \in {" ", "\t", "\n"}
        /\ \A i \in 1..Len(stored) : stored[i] = sent[k + i]
        /\ stored # << >> => /\ stored[1] \notin {" ", "\t", "\n"}
                             /\ stored[Len(stored)] \notin {" ", "\t", "\n"}

\* what C17 asks of a step
C17_Step ==
    (/\ Answered("sdk:message:send")
     /\ Authorised
     /\ Req.roomId \in DOMAIN roomMembers
     /\ Req.userId \in DOMAIN users
     /\ Req.userId \in roomMembers[Req.roomId])
    => LET L == TrimmedLen(Req.text)
       IN  /\ L = 0 <=> Code = "EMPTY_MESSAGE"
           /\ L > 2000 <=> Code = "MESSAGE_TOO_LONG"
           /\ L \in 1..2000 <=> Reply.ok
           /\ Reply.ok
              => LET log == messagesByRoom'[Req.roomId]
                 IN  /\ Len(log[Len(log)].text) = L
                     /\ IsTrimOf(log[Len(log)].text, Req.text)
                     /\ Reply.data.message.text = log[Len(log)].text

(* C17: a SendMessage by a member of an existing room is settled by the    *)
(* length L of the text without the white space at its ends: L = 0 is      *)
(* answered EMPTY_MESSAGE, L > 2000 MESSAGE_TOO_LONG (2001 fails), and     *)
(* 1 <= L <= 2000 succeeds (2000 succeeds) and stores the trimmed text.    *)
C17_TextLength == [][C17_Step]_vars

\* a text of more than 2000 characters whose trimmed length is 2000 has
\* just been stored, trimmed
C17_Witness ==
    /\ lastAck.event = "sdk:message:send"
    /\ lastAck.reply.ok
    /\ Len(lastAck.payload.text) > 2000
    /\ Len(messagesByRoom[lastAck.payload.roomId][1].text) = 2000

\* a calendar day as one number that orders days as the calendar does
DayNumber(y, m, d) == 10000 * y + 100 * m + d

\* the day after the day (y, m, d); (y, m, d) may lie past the end of a month
DayAfter(y, m, d) ==
    IF d < DaysInMonth(y, m) THEN [y |-> y, m |-> m, d |-> d + 1]
    ELSE IF m < 12 THEN [y |-> y, m |-> m + 1, d |-> 1]
    ELSE [y |-> y + 1, m |-> 1, d |-> 1]

\* what C18 asks of a step
C18_Step ==
    (Answered("sdk:user:create") /\ Req # Undefined /\ Code \in {"OK", "INVALID_DOB"})
    => LET born == ParseDate(Req.dob)
       IN  /\ born # InvalidDate
           /\ Reply.ok <=> DayNumber(born.y + 18, born.m, born.d)
                              <= DayNumber(now.y, now.m, now.d)
           /\ (born.y + 18 = now.y /\ born.m = now.m /\ born.d = now.d) => Reply.ok
           /\ born = DayAfter(now.y - 18, now.m, now.d) => Code = "INVALID_DOB"

C19_ReferentialIntegrity ==
    /\ DOMAIN roomMembers = {rooms[i].id : i \in 1..Len(rooms)}
    /\ DOMAIN messagesByRoom = DOMAIN roomMembers
    /\ \A i, j \in 1..Len(rooms) : rooms[i].id = rooms[j].id => i = j
    /\ \A u \in DOMAIN users : users[u].id = u
    /\ \A r \in DOMAIN roomMembers : roomMembers[r] \subseteq DOMAIN users
    /\ \A r \in DOMAIN messagesByRoom :
          \A i \in 1..Len(messagesByRoom[r]) :
              LET msg == messagesByRoom[r][i]
              IN  /\ msg.roomId = r
                  /\ msg.senderUserId \in DOMAIN users
                  /\ msg.senderUserId \in roomMembers[r]
                  /\ \A q \in DOMAIN messagesByRoom :
                        \A j \in 1..Len(messagesByRoom[q]) :
                            messagesByRoom[q][j].id = msg.id => q = r /\ j = i

\* a seed room and a room made on demand each hold a message, sent by two
\* different identities
C19_Witness ==
    /\ Len(rooms) > 2
    /\ messagesByRoom["room_001"] # << >>
    /\ messagesByRoom[rooms[3].id] # << >>
    /\ messagesByRoom["room_001"][1].senderUserId
          # messagesByRoom[rooms[3].id][1].senderUserId

\* what C20 asks of a step
C20_Step ==
    /\ \A e \in emitted' :
          e.event \in {"sdk:message:new", "sdk:presence:joined"}
          => /\ e.to \in DOMAIN sockets
             /\ EventRoom(e) \in sockets[e.to]
             /\ EventRoom(e) \in sockets'[e.to]
    /\ \A c \in DOMAIN sockets' :
          \A r \in sockets'[c] :
              (c \notin DOMAIN sockets \/ r \notin sockets[c])
              => /\ c = lastAck'.socket
                 /\ Reply.ok
                 /\ \/ Answered("sdk:room:join") /\ Req.roomId = r
                    \/ Answered("sdk:room:create") /\ rooms'[Len(rooms')].id = r
    /\ (Answered("sdk:room:join") /\ ~Reply.ok)
       => /\ sockets' = sockets
          /\ emitted' = {}
          /\ roomMembers' = roomMembers

(* C20: a socket receives a MessageCreated or PresenceJoined of room r     *)
(* only if it is subscribed to r; a socket becomes subscribed to r only by *)
(* its own successful CreateRoom of r or JoinRoom of r; and a JoinRoom     *)
(* answered with an error (UNAUTHORIZED, USER_NOT_FOUND, ROOM_NOT_FOUND,   *)
(* ROOM_FULL) subscribes nothing, so a socket turned away from a full room *)
(* is not given that room's messages by having asked.                      *)
C20_FanoutIsolation == [][C20_Step]_vars

\* a socket that is not subscribed to a full room has just been turned
\* away from it, while another socket is subscribed to the room and the
\* room's log holds a message
C20_Witness ==
    /\ lastAck.event = "sdk:room:join"
    /\ ~lastAck.reply.ok
    /\ lastAck.reply.error.code = "ROOM_FULL"
    /\ lastAck.payload.roomId \notin sockets[lastAck.socket]
    /\ \E c \in DOMAIN sockets \ {lastAck.socket} : lastAck.payload.roomId \in sockets[c]
    /\ messagesByRoom[lastAck.payload.roomId] # << >>

====
